---- MODULE Spec2Model ----
(***************************************************************************)
(* EnumSetting (lib/pages/enum-setting.js): the builder calls options and  *)
(* groupedOptions, and the serializer toJson.                              *)
(*                                                                         *)
(* JavaScript strings are TLA+ strings, so the template literals of the    *)
(* i18n key functions are real concatenations.  Objects the caller owns    *)
(* (Option and GroupedOption records) live in a small heap, because the    *)
(* code stores and mutates them by reference; objects the builder creates  *)
(* itself are held inline in the stored arrays.                            *)
(***************************************************************************)
EXTENDS Integers, Sequences, FiniteSets, TLC

VARIABLES
    headers,          \* this._section._page.headers: localization enabled
    optName,          \* heap: the name property of each caller-owned Option record
    grpName,          \* heap: the name property of each caller-owned GroupedOption record
    _options,         \* this._options
    _groupedOptions,  \* this._groupedOptions
    doc,              \* the document the last toJson returned, as it was on return
    prevDoc,          \* the document of the toJson before it, no builder call between
    last,             \* the last call: its operation, argument and outcome
    ncalls            \* number of calls made so far

vars == <<headers, optName, grpName, _options, _groupedOptions, doc, prevDoc,
          last, ncalls>>

-----------------------------------------------------------------------------
(* Bounds *)

MaxCalls == 3     \* calls made on one Setting
MaxBuilds == 2    \* calls made by the caller that only builds flat options
MaxLen == 2       \* elements of an array argument, entries of a mapping argument

-----------------------------------------------------------------------------
(* The values of the model *)

\* An argument is a shape t and a value v; a call is its operation, its
\* argument and whether it threw.
NoArg == [t |-> "none", v |-> <<>>]

NoCall == [op |-> "none", arg |-> NoArg, threw |-> FALSE]

\* A stored element is a reference to a caller's record (Option or
\* GroupedOption), or an object the builder created, held inline.
NoRef == "none"

Alias(o) == [ref |-> o, id |-> "", name |-> ""]

\* this._options and this._groupedOptions: never assigned, or an array.
Unset == [set |-> FALSE, items |-> <<>>]

\* The document toJson returns: its options and groupedOptions.
NoDoc == [returned |-> FALSE, options |-> Unset, groupedOptions |-> Unset]

AliasGroup(g) == [ref |-> g, name |-> "", options |-> <<>>]

\* The caller's records: o1 = {id: 'a', name: 'red'}, or o1 = {id: 'a'} (no
\* name property), and g1 = {name: 'Colors', options: [o1]}.
OptObjs == {"o1"}
GrpObjs == {"g1"}

OptId(o) == "a"
OptName0(o) == "red"

GrpName0(g) == "Colors"
GrpOptions(g) == <<"o1">>

-----------------------------------------------------------------------------
(* JavaScript values *)

\* The value undefined (a property that is absent); never equal to a string
\* the inputs use.
Undefined == "{undefined}"

\* String(v) as a template literal applies it.
JsString(v) == IF v = Undefined THEN "undefined" ELSE v

\* The [[OwnPropertyKeys]] order of for...in and Object.keys on an ordinary
\* object: canonical array-index keys in ascending numeric order, then the
\* other string keys in insertion order.
Digits == <<"0", "1", "2", "3", "4", "5", "6", "7", "8", "9">>

IsDigit(c) == \E d \in 1..10 : Digits[d] = c

DigitVal(c) == (CHOOSE d \in 1..10 : Digits[d] = c) - 1

\* The largest array index, 2^32 - 2, as its canonical string.
MaxArrayIndex == "4294967294"

\* a < b for digit strings of one length, from digit i on.
RECURSIVE DigitsLess(_, _, _)
DigitsLess(a, b, i) ==
    IF i > Len(a) THEN FALSE
    ELSE LET x == DigitVal(SubSeq(a, i, i))
             y == DigitVal(SubSeq(b, i, i))
         IN IF x = y THEN DigitsLess(a, b, i + 1) ELSE x < y

\* a < b as numbers, for canonical numeric strings (compared digit by
\* digit: the numbers reach 2^32).
IndexLess(a, b) ==
    \/ Len(a) < Len(b)
    \/ Len(a) = Len(b) /\ DigitsLess(a, b, 1)

\* An array index: the canonical string of an integer in 0 .. 2^32 - 2.
IsArrayIndex(k) ==
    /\ Len(k) >= 1
    /\ \A i \in 1..Len(k) : IsDigit(SubSeq(k, i, i))
    /\ Len(k) > 1 => SubSeq(k, 1, 1) # "0"
    /\ ~IndexLess(MaxArrayIndex, k)

\* A mapping is the sequence of its <<key, value>> entries in insertion order.
RECURSIVE IndexKeys(_, _)
IndexKeys(m, todo) ==
    IF todo = {} THEN <<>>
    ELSE LET i == CHOOSE x \in todo :
                    \A y \in todo : ~IndexLess(m[y][1], m[x][1])
         IN <<m[i]>> \o IndexKeys(m, todo \ {i})

OwnEntries(m) ==
    IndexKeys(m, {i \in 1..Len(m) : IsArrayIndex(m[i][1])})
        \o SelectSeq(m, LAMBDA e : ~IsArrayIndex(e[1]))

-----------------------------------------------------------------------------
(* The owning page and the translation function (section-setting.js and    *)
(* page.js): collaborators of this class.                                  *)

PageId == "p"
SettingId == "s"

KeyPrefix == "pages." \o PageId \o "."

\* page.i18nKey(property): mints the localization key of a dotted path.
i18nKey(property) == KeyPrefix \o property

\* A raw localization-key placeholder: a string i18nKey minted.
IsKey(name) ==
    /\ name # Undefined
    /\ Len(name) >= Len(KeyPrefix)
    /\ SubSeq(name, 1, Len(KeyPrefix)) = KeyPrefix

i18nOptionKey(property) ==
    i18nKey("settings." \o SettingId \o ".options." \o JsString(property) \o ".name")

i18nOptionGroupKey(property) ==
    i18nKey("settings." \o SettingId \o ".groups." \o JsString(property) \o ".name")

i18nOptionGroupOptionKey(groupName, property) ==
    i18nKey("settings." \o SettingId \o ".groups." \o JsString(groupName)
                \o ".options." \o JsString(property) \o ".name")

\* The display texts of the locale catalogue.
OptionTexts == {"red", "blue"}
GroupTexts == {"Colors", "Sizes", "1"}

Phrase(n) ==
    CASE n = "red" -> "Red"
      [] n = "blue" -> "Blue"
      [] n = "Colors" -> "Colours"
      [] n = "Sizes" -> "Sizes (EU)"
      [] OTHER -> "Group " \o n

\* The catalogue: an entry for every key the builder mints from the plain
\* names, and one phrase-keyed entry ("Red" is also a phrase of its own).
LocaleKeys ==
    {i18nOptionKey(n) : n \in OptionTexts}
        \cup {i18nOptionGroupKey(g) : g \in GroupTexts}
        \cup {i18nOptionGroupOptionKey(g, n) : g \in GroupTexts, n \in OptionTexts}
        \cup {i18nOptionGroupOptionKey(i18nOptionGroupKey(g), n) :
                 g \in GroupTexts, n \in OptionTexts}

LocaleText(k) ==
    CASE \E n \in OptionTexts : k = i18nOptionKey(n) ->
            Phrase(CHOOSE n \in OptionTexts : k = i18nOptionKey(n))
      [] \E g \in GroupTexts : k = i18nOptionGroupKey(g) ->
            Phrase(CHOOSE g \in GroupTexts : k = i18nOptionGroupKey(g))
      [] OTHER ->
            Phrase(CHOOSE n \in OptionTexts : \E g \in GroupTexts :
                      \/ k = i18nOptionGroupOptionKey(g, n)
                      \/ k = i18nOptionGroupOptionKey(i18nOptionGroupKey(g), n))

\* translate(name): with localization enabled the catalogue's text for the
\* key, and the argument itself when the catalogue has no entry for it;
\* with localization disabled the argument (a literal passes through).
Translate(name) ==
    IF ~headers \/ name = Undefined THEN name
    ELSE IF name \in LocaleKeys THEN LocaleText(name)
    ELSE IF name = "Red" THEN "Rouge"
    ELSE name

-----------------------------------------------------------------------------
(* The stored structures *)

\* The name property of a caller's Option record when the call sequence
\* begins: present, or absent.
OptNames0 == {OptName0(o) : o \in OptObjs} \cup {Undefined}

\* An object the builder created.
Fresh(id, name) == [ref |-> NoRef, id |-> id, name |-> name]

FreshGroup(name, options) == [ref |-> NoRef, name |-> name, options |-> options]

Stored(items) == [set |-> TRUE, items |-> items]

\* What a stored array holds, references followed.
OptView(it, onames) ==
    IF it.ref = NoRef THEN [id |-> it.id, name |-> it.name]
    ELSE [id |-> OptId(it.ref), name |-> onames[it.ref]]

OptionsView(items, onames) ==
    [i \in 1..Len(items) |-> OptView(items[i], onames)]

GroupView(gr, gnames, onames) ==
    IF gr.ref = NoRef
    THEN [name |-> gr.name, options |-> OptionsView(gr.options, onames)]
    ELSE [name |-> gnames[gr.ref],
          options |-> [i \in 1..Len(GrpOptions(gr.ref)) |->
                          OptView(Alias(GrpOptions(gr.ref)[i]), onames)]]

GroupsView(items, gnames, onames) ==
    [i \in 1..Len(items) |-> GroupView(items[i], gnames, onames)]

StoredView(opts, grps, gnames, onames) ==
    [options |-> [set |-> opts.set, items |-> OptionsView(opts.items, onames)],
     groupedOptions |-> [set |-> grps.set,
                         items |-> GroupsView(grps.items, gnames, onames)]]

-----------------------------------------------------------------------------
(* options(options), lines 172-201 *)

\* Line 181: the name an element is given.
OptionName(name) == IF headers THEN i18nOptionKey(name) ELSE name

\* Lines 175-184, from element i on.  An element is a primitive string, a
\* reference to a caller's Option record, or a number.  A record is rewritten
\* in place and pushed as it is; a number has no name to assign to, and the
\* assignment of line 181 throws a TypeError (strict mode).
RECURSIVE OptionsArray(_, _, _, _)
OptionsArray(arr, i, onames, values) ==
    IF i > Len(arr) THEN [threw |-> FALSE, onames |-> onames, values |-> values]
    ELSE LET it == arr[i] IN
         CASE it.t = "string" ->
                OptionsArray(arr, i + 1, onames,
                             Append(values, Fresh(it.v, OptionName(it.v))))
           [] it.t = "record" ->
                OptionsArray(arr, i + 1,
                             [onames EXCEPT ![it.v] = OptionName(onames[it.v])],
                             Append(values, Alias(it.v)))
           [] OTHER -> [threw |-> TRUE, onames |-> onames, values |-> values]

\* The slip of line 191 reading the property name for the text.
OptionsObject_idAsName(m) ==
    LET es == OwnEntries(m)
    IN [i \in 1..Len(es) |-> Fresh(es[i][1], OptionName(es[i][1]))]

\* Lines 186-194: one option per own property, in for...in order.
OptionsObject(m) ==
    LET es == OwnEntries(m)
    IN [i \in 1..Len(es) |-> Fresh(es[i][1], OptionName(es[i][2]))]

\* The slip of leaving out the else branch of lines 195-197.
OptionsCall_noElse(arg, onames) ==
    CASE arg.t = "array" -> OptionsArray(arg.v, 1, onames, <<>>)
      [] arg.t = "object" ->
            [threw |-> FALSE, onames |-> onames, values |-> OptionsObject(arg.v)]
      [] OTHER -> [threw |-> FALSE, onames |-> onames, values |-> <<>>]

\* The whole call: what it leaves in the heap and whether it assigns
\* this._options (line 199) or throws.
OptionsCall(arg, onames) ==
    CASE arg.t = "array" -> OptionsArray(arg.v, 1, onames, <<>>)
      [] arg.t = "object" ->
            [threw |-> FALSE, onames |-> onames, values |-> OptionsObject(arg.v)]
      [] OTHER -> [threw |-> TRUE, onames |-> onames, values |-> <<>>]

-----------------------------------------------------------------------------
(* groupedOptions(groups), lines 91-153 *)

\* Lines 98 and 116: the name a group is given.
GroupName(name) == IF headers THEN i18nOptionGroupKey(name) ELSE name

\* The slip of line 101 reading group.name, which line 98 has rewritten.
GroupRecordOptionName_rewritten(groupName, name) ==
    IF headers THEN i18nOptionGroupOptionKey(GroupName(groupName), name) ELSE name

\* Line 101: the name an option of a group record is given; groupName is
\* the constant of line 97.
GroupRecordOptionName(groupName, name) ==
    IF headers THEN i18nOptionGroupOptionKey(groupName, name) ELSE name

\* Lines 126-128 and 136-138: the name an option of a mapping's group is
\* given; group is the group object of line 113, after line 116.
GroupMappingOptionName(group, name) ==
    IF headers THEN i18nOptionGroupOptionKey(group.name, name) ELSE name

\* Lines 100-102: every option of the group record is rewritten in place.
RECURSIVE GroupRecordOptions(_, _, _, _)
GroupRecordOptions(opts, g, groupName, onames) ==
    IF g > Len(opts) THEN onames
    ELSE GroupRecordOptions(opts, g + 1, groupName,
            [onames EXCEPT ![opts[g]] =
                GroupRecordOptionName(groupName, onames[opts[g]])])

\* Lines 95-108, from element i on.  An element is a reference to a
\* caller's GroupedOption record, or a number.
RECURSIVE GroupedArray(_, _, _, _, _)
GroupedArray(arr, i, gnames, onames, values) ==
    IF i > Len(arr)
    THEN [threw |-> FALSE, onames |-> onames, gnames |-> gnames, values |-> values]
    ELSE LET group == arr[i] IN
         IF group.t = "record"
         THEN LET groupName == gnames[group.v]
              IN GroupedArray(arr, i + 1,
                     [gnames EXCEPT ![group.v] = GroupName(groupName)],
                     GroupRecordOptions(GrpOptions(group.v), 1, groupName, onames),
                     Append(values, AliasGroup(group.v)))
         ELSE [threw |-> TRUE, onames |-> onames, gnames |-> gnames,
               values |-> values]

\* The slip of lines 133-138 reading groupProperty for the text.
GroupMappingOptions_keyAsName(group, propertyGroup) ==
    CASE propertyGroup.t = "array" ->
            [i \in 1..Len(propertyGroup.v) |->
                Fresh(propertyGroup.v[i],
                      GroupMappingOptionName(group, propertyGroup.v[i]))]
      [] propertyGroup.t = "object" ->
            LET es == OwnEntries(propertyGroup.v)
            IN [i \in 1..Len(es) |->
                   Fresh(es[i][1], GroupMappingOptionName(group, es[i][1]))]
      [] OTHER -> <<>>

\* Lines 121-144: the options of one group of a mapping.  The value is an
\* array of strings, a mapping id -> text, or something else (no options).
GroupMappingOptions(group, propertyGroup) ==
    CASE propertyGroup.t = "array" ->
            [i \in 1..Len(propertyGroup.v) |->
                Fresh(propertyGroup.v[i],
                      GroupMappingOptionName(group, propertyGroup.v[i]))]
      [] propertyGroup.t = "object" ->
            LET es == OwnEntries(propertyGroup.v)
            IN [i \in 1..Len(es) |->
                   Fresh(es[i][1], GroupMappingOptionName(group, es[i][2]))]
      [] OTHER -> <<>>

\* Lines 110-146: one group per own property, in for...in order; index
\* (line 112) is the property's place in Object.keys(groups), which is the
\* place the group was pushed to.
GroupedObject(m) ==
    LET es == OwnEntries(m)
    IN [i \in 1..Len(es) |->
           LET group == FreshGroup(GroupName(es[i][1]), <<>>)
           IN [group EXCEPT !.options = GroupMappingOptions(group, es[i][2])]]

GroupedCall(arg, gnames, onames) ==
    CASE arg.t = "array" -> GroupedArray(arg.v, 1, gnames, onames, <<>>)
      [] arg.t = "object" ->
            [threw |-> FALSE, onames |-> onames, gnames |-> gnames,
             values |-> GroupedObject(arg.v)]
      [] OTHER -> [threw |-> TRUE, onames |-> onames, gnames |-> gnames,
                   values |-> <<>>]

-----------------------------------------------------------------------------
(* toJson(), lines 226-261 *)

\* Lines 240, 243 and 252: the name written into the result.
GroupDocName(name) == Translate(name)
GroupOptionDocName(name) == Translate(name)
OptionDocName(name) == Translate(name)

\* Lines 241-244 on a group the builder created: result.groupedOptions is
\* this._groupedOptions itself (line 237), so the stored option is written.
GroupOptionsJson(options) ==
    [g \in 1..Len(options) |->
        [options[g] EXCEPT !.name = GroupOptionDocName(options[g].name)]]

\* Lines 241-244 on a caller's group record: its option records are written.
RECURSIVE GroupRecordJson(_, _, _)
GroupRecordJson(opts, g, onames) ==
    IF g > Len(opts) THEN onames
    ELSE GroupRecordJson(opts, g + 1,
            [onames EXCEPT ![opts[g]] = GroupOptionDocName(onames[opts[g]])])

\* Lines 238-245, from group i on.
RECURSIVE GroupsJson(_, _, _, _)
GroupsJson(items, i, gnames, onames) ==
    IF i > Len(items) THEN [items |-> items, onames |-> onames, gnames |-> gnames]
    ELSE LET group == items[i] IN
         IF group.ref = NoRef
         THEN GroupsJson(
                 [items EXCEPT ![i] =
                     FreshGroup(GroupDocName(group.name),
                                GroupOptionsJson(group.options))],
                 i + 1, gnames, onames)
         ELSE GroupsJson(items, i + 1,
                 [gnames EXCEPT ![group.ref] = GroupDocName(gnames[group.ref])],
                 GroupRecordJson(GrpOptions(group.ref), 1, onames))

\* Lines 250-253, from option i on; result.options is this._options itself
\* (line 249).
RECURSIVE OptionsJson(_, _, _)
OptionsJson(items, i, onames) ==
    IF i > Len(items) THEN [items |-> items, onames |-> onames]
    ELSE LET it == items[i] IN
         IF it.ref = NoRef
         THEN OptionsJson([items EXCEPT ![i].name = OptionDocName(it.name)],
                          i + 1, onames)
         ELSE OptionsJson(items, i + 1,
                          [onames EXCEPT ![it.ref] = OptionDocName(onames[it.ref])])

\* The whole call: the stored arrays and the heap after it.
ToJsonCall(opts, grps, gnames, onames) ==
    LET gj == IF grps.set THEN GroupsJson(grps.items, 1, gnames, onames)
              ELSE [items |-> grps.items, onames |-> onames, gnames |-> gnames]
        oj == IF opts.set THEN OptionsJson(opts.items, 1, gj.onames)
              ELSE [items |-> opts.items, onames |-> gj.onames]
    IN [options |-> [opts EXCEPT !.items = oj.items],
        groupedOptions |-> [grps EXCEPT !.items = gj.items],
        onames |-> oj.onames,
        gnames |-> gj.gnames]

-----------------------------------------------------------------------------
(* The calls a caller makes *)

SeqsUpTo(S, n) == UNION {[1..k -> S] : k \in 0..n}

Injective(q) == \A i, j \in 1..Len(q) : q[i] = q[j] => i = j

Primitives == {"number", "string", "null"}

PrimitiveArg(p) == [t |-> p, v |-> <<>>]

\* options: arrays of strings, Option records and numbers
OptionElements ==
    {[t |-> "string", v |-> "red"], [t |-> "string", v |-> "blue"],
     [t |-> "record", v |-> "o1"], [t |-> "number", v |-> "42"]}

OptionArrays == SeqsUpTo(OptionElements, MaxLen)

\* options: mappings id -> text
OptionKeys == {"4294967295", "2", "1"}

OptionText(k) == IF k = "2" THEN "red" ELSE "blue"

OptionMappings ==
    {[i \in 1..Len(q) |-> <<q[i], OptionText(q[i])>>] :
        q \in {x \in SeqsUpTo(OptionKeys, MaxLen) : Injective(x)}}

\* groupedOptions: arrays of GroupedOption records and numbers
GroupElements ==
    {[t |-> "record", v |-> "g1"], [t |-> "number", v |-> "1"]}

GroupArrays == SeqsUpTo(GroupElements, MaxLen)

\* groupedOptions: mappings group name -> array of strings, mapping id ->
\* text, or a primitive string
GroupKeys == {"Colors", "Sizes", "1"}

GroupValue(k) ==
    CASE k = "Colors" -> [t |-> "array", v |-> <<"red", "blue">>]
      [] k = "Sizes" ->
            [t |-> "object",
             v |-> << <<"b", "blue">>, <<"4294967295", "red">>, <<"2", "red">>,
                      <<"a", "red">>, <<"1", "blue">> >>]
      [] OTHER -> [t |-> "string", v |-> <<>>]

GroupMappings ==
    {[i \in 1..Len(q) |-> <<q[i], GroupValue(q[i])>>] :
        q \in {x \in SeqsUpTo(GroupKeys, MaxLen) : Injective(x)}}

Init ==
    /\ headers \in BOOLEAN
    /\ optName \in [OptObjs -> OptNames0]
    /\ grpName = [g \in GrpObjs |-> GrpName0(g)]
    /\ _options = Unset
    /\ _groupedOptions = Unset
    /\ doc = NoDoc
    /\ prevDoc = NoDoc
    /\ last = NoCall
    /\ ncalls = 0

DoOptions(arg) ==
    LET r == OptionsCall(arg, optName) IN
    /\ ncalls < MaxCalls
    /\ optName' = r.onames
    /\ _options' = IF r.threw THEN _options ELSE Stored(r.values)
    /\ last' = [op |-> "options", arg |-> arg, threw |-> r.threw]
    /\ doc' = NoDoc
    /\ prevDoc' = NoDoc
    /\ ncalls' = ncalls + 1
    /\ UNCHANGED <<headers, grpName, _groupedOptions>>

DoGroupedOptions(arg) ==
    LET r == GroupedCall(arg, grpName, optName) IN
    /\ ncalls < MaxCalls
    /\ grpName' = r.gnames
    /\ optName' = r.onames
    /\ _groupedOptions' = IF r.threw THEN _groupedOptions ELSE Stored(r.values)
    /\ last' = [op |-> "groupedOptions", arg |-> arg, threw |-> r.threw]
    /\ doc' = NoDoc
    /\ prevDoc' = NoDoc
    /\ ncalls' = ncalls + 1
    /\ UNCHANGED <<headers, _options>>

options ==
    \/ \E a \in OptionArrays : DoOptions([t |-> "array", v |-> a])
    \/ \E m \in OptionMappings : DoOptions([t |-> "object", v |-> m])
    \/ \E p \in Primitives : DoOptions(PrimitiveArg(p))

groupedOptions ==
    \/ \E a \in GroupArrays : DoGroupedOptions([t |-> "array", v |-> a])
    \/ \E m \in GroupMappings : DoGroupedOptions([t |-> "object", v |-> m])
    \/ \E p \in Primitives : DoGroupedOptions(PrimitiveArg(p))

toJson ==
    LET r == ToJsonCall(_options, _groupedOptions, grpName, optName) IN
    /\ ncalls < MaxCalls
    /\ _options' = r.options
    /\ _groupedOptions' = r.groupedOptions
    /\ grpName' = r.gnames
    /\ optName' = r.onames
    /\ doc' = [returned |-> TRUE,
               options |-> [set |-> r.options.set,
                            items |-> OptionsView(r.options.items, r.onames)],
               groupedOptions |->
                   [set |-> r.groupedOptions.set,
                    items |-> GroupsView(r.groupedOptions.items, r.gnames,
                                         r.onames)]]
    /\ prevDoc' = doc
    /\ last' = [op |-> "toJson", arg |-> NoArg, threw |-> FALSE]
    /\ ncalls' = ncalls + 1
    /\ UNCHANGED headers

Next == options \/ groupedOptions \/ toJson

Spec == Init /\ [][Next]_vars

\* One call on a Setting just constructed.
NextFirst == ncalls = 0 /\ Next

SpecFirst == Init /\ [][NextFirst]_vars

\* A caller that builds flat options only, and one that uses groups only.
NextOptions == ncalls < MaxBuilds /\ options

SpecOptions == Init /\ [][NextOptions]_vars

NextGrouped == groupedOptions \/ toJson

SpecGrouped == Init /\ [][NextGrouped]_vars

-----------------------------------------------------------------------------
(* Properties *)

\* The stored state of the Setting, references followed.
StoredNow == StoredView(_options, _groupedOptions, grpName, optName)

\* The step is a call of op (every call counts).
IsCall(op) == ncalls' = ncalls + 1 /\ last'.op = op

Range(q) == {q[i] : i \in 1..Len(q)}

\* The text a mapping gives key k.
ValueOf(m, k) == (CHOOSE e \in Range(m) : e[1] = k)[2]

Position(m, k) == CHOOSE i \in 1..Len(m) : m[i][1] = k

\* ids holds the keys of mapping m once each, in insertion order.
InInsertionOrder(ids, m) ==
    /\ Len(ids) = Len(m)
    /\ \A i \in 1..Len(ids) : ids[i] = m[i][1]

\* ids holds the keys of mapping m once each: the array-index keys first,
\* in ascending numeric order, then the other keys in insertion order.
InEnumerationOrder(ids, m) ==
    /\ Len(ids) = Len(m)
    /\ Range(ids) = {e[1] : e \in Range(m)}
    /\ \A i, j \in 1..Len(ids) :
          i < j =>
             IF IsArrayIndex(ids[i])
             THEN IsArrayIndex(ids[j]) => IndexLess(ids[i], ids[j])
             ELSE /\ ~IsArrayIndex(ids[j])
                  /\ Position(m, ids[i]) < Position(m, ids[j])

Ids(opts) == [i \in 1..Len(opts) |-> opts[i].id]

\* Every display name of a document.
DocNames(d) ==
    {d.options.items[i].name : i \in 1..Len(d.options.items)}
        \cup {d.groupedOptions.items[i].name :
                 i \in 1..Len(d.groupedOptions.items)}
        \cup UNION {{d.groupedOptions.items[i].options[g].name :
                        g \in 1..Len(d.groupedOptions.items[i].options)} :
                    i \in 1..Len(d.groupedOptions.items)}

\* C1: two calls of toJson with no builder call between them return
\* structurally equal documents.
C1_toJsonIdempotent ==
    (last.op = "toJson" /\ prevDoc.returned) => doc = prevDoc

\* C2: toJson leaves the stored flat options and the stored grouped options,
\* names included, as they were.
C2_toJsonNoSideEffect ==
    [][IsCall("toJson") => StoredNow' = StoredNow]_vars

\* C3: a call of options or groupedOptions that fails with TypeError leaves
\* the stored state as it was.
C3_NoPartialSuccess ==
    [][(ncalls' = ncalls + 1 /\ last'.threw) => StoredNow' = StoredNow]_vars

\* C4: options throws for an argument that is neither an array nor an
\* object; groupedOptions throws for such an argument and for an array with
\* an element that is not an object.
C4_MalformedRejected ==
    /\ (last.op = "options" /\ last.arg.t \in Primitives) => last.threw
    /\ (last.op = "groupedOptions" /\ last.arg.t \in Primitives) => last.threw
    /\ (last.op = "groupedOptions" /\ last.arg.t = "array"
           /\ \E i \in 1..Len(last.arg.v) : last.arg.v[i].t # "record")
          => last.threw

C4_Witness ==
    /\ last.op = "groupedOptions"
    /\ last.arg.t = "array"
    /\ Len(last.arg.v) = 2
    /\ last.arg.v[1].t = "record"
    /\ last.arg.v[2].t = "number"
    /\ last.threw

\* C5: options on an array stores, for an Option record that has an id and
\* no name, a name derived from the id: the id itself with localization
\* disabled, the options key of the id with localization enabled; never
\* undefined.
C5_NameDefaultsToId ==
    [][(IsCall("options") /\ ~last'.threw /\ last'.arg.t = "array") =>
          \A i \in 1..Len(last'.arg.v) :
             (last'.arg.v[i].t = "record" /\ optName[last'.arg.v[i].v] = Undefined)
                => LET o == last'.arg.v[i].v
                       name == StoredNow'.options.items[i].name
                   IN /\ name # Undefined
                      /\ name = IF headers THEN i18nOptionKey(OptId(o))
                                ELSE OptId(o)]_vars

\* The text the argument of groupedOptions gives the option id of the group
\* stored under rewritten name gname (mapping shape).
GroupEntry(m, gname) == CHOOSE e \in Range(m) : i18nOptionGroupKey(e[1]) = gname

MappingOptionText(m, gname, id) ==
    LET value == GroupEntry(m, gname)[2]
    IN IF value.t = "array" THEN id ELSE ValueOf(value.v, id)

\* The mapping shape: the group segment of every option key is the group's
\* rewritten name.
MappingUsesRewrittenName ==
    (IsCall("groupedOptions") /\ ~last'.threw /\ headers /\ last'.arg.t = "object")
       => \A gr \in Range(StoredNow'.groupedOptions.items) :
             \A opt \in Range(gr.options) :
                /\ IsKey(gr.name)
                /\ opt.name = i18nOptionGroupOptionKey(gr.name,
                                  MappingOptionText(last'.arg.v, gr.name, opt.id))

\* C6 as claimed: for the array shape too, the group segment of every
\* option key is the group's rewritten name.
C6_RewrittenNameInBothShapes ==
    [][/\ MappingUsesRewrittenName
       /\ (IsCall("groupedOptions") /\ ~last'.threw /\ headers
              /\ last'.arg.t = "array" /\ Injective(last'.arg.v))
             => \A i \in 1..Len(last'.arg.v) :
                   LET g == last'.arg.v[i].v
                       gr == StoredNow'.groupedOptions.items[i]
                   IN /\ gr.name = i18nOptionGroupKey(grpName[g])
                      /\ \A j \in 1..Len(gr.options) :
                            gr.options[j].name =
                               i18nOptionGroupOptionKey(gr.name,
                                   optName[GrpOptions(g)[j]])]_vars

\* C6 amended: with localization enabled, the group segment of an option's
\* key is the group's rewritten name for the mapping shape, and the name the
\* group record had when the call began for the array shape (a record that
\* occurs once in the array).
C6_GroupSegment ==
    [][/\ MappingUsesRewrittenName
       /\ (IsCall("groupedOptions") /\ ~last'.threw /\ headers
              /\ last'.arg.t = "array" /\ Injective(last'.arg.v))
             => \A i \in 1..Len(last'.arg.v) :
                   LET g == last'.arg.v[i].v
                       gr == StoredNow'.groupedOptions.items[i]
                   IN /\ gr.name = i18nOptionGroupKey(grpName[g])
                      /\ \A j \in 1..Len(gr.options) :
                            gr.options[j].name =
                               i18nOptionGroupOptionKey(grpName[g],
                                   optName[GrpOptions(g)[j]])]_vars

C6_Witness ==
    /\ headers
    /\ last.op = "groupedOptions"
    /\ ~last.threw
    /\ last.arg.t = "array"
    /\ Len(last.arg.v) = 1
    /\ grpName["g1"] = i18nOptionGroupKey("Colors")
    /\ optName["o1"] = i18nOptionGroupOptionKey("Colors", "red")
    /\ StoredNow.groupedOptions.items[1].options[1].name = optName["o1"]

\* C7: a builder call repeated with the identical argument leaves the stored
\* state the first call left.
C7_BuilderIdempotent ==
    [][(/\ ncalls' = ncalls + 1
        /\ last'.op \in {"options", "groupedOptions"}
        /\ last.op = last'.op
        /\ ~last.threw
        /\ ~last'.threw
        /\ last.arg.t = last'.arg.t
        /\ last.arg.v = last'.arg.v)
          => StoredNow' = StoredNow]_vars

\* What options stores for an array of strings and records (localization
\* disabled): one option per element, in order.
ArrayStoredInOrder(arr, stored) ==
    /\ Len(stored) = Len(arr)
    /\ \A i \in 1..Len(arr) :
          /\ arr[i].t = "string" => stored[i] = [id |-> arr[i].v, name |-> arr[i].v]
          /\ arr[i].t = "record" => stored[i].id = OptId(arr[i].v)

\* C8 as claimed: with localization disabled options stores one option per
\* element in input order, id = name = string for strings, and for a mapping
\* id = key, name = text in the mapping's insertion order.
C8_InsertionOrder ==
    (/\ ~headers
     /\ last.op = "options"
     /\ ~last.threw)
       => /\ _options.set
          /\ last.arg.t = "array" =>
                ArrayStoredInOrder(last.arg.v, StoredNow.options.items)
          /\ last.arg.t = "object" =>
                /\ InInsertionOrder(Ids(StoredNow.options.items), last.arg.v)
                /\ \A opt \in Range(StoredNow.options.items) :
                      opt.name = ValueOf(last.arg.v, opt.id)

\* C8 amended: the same, the options of a mapping being in the order
\* for...in gives its keys: array-index keys first, ascending, then the
\* other keys in insertion order.
C8_EnumerationOrder ==
    (/\ ~headers
     /\ last.op = "options"
     /\ ~last.threw)
       => /\ _options.set
          /\ last.arg.t = "array" =>
                ArrayStoredInOrder(last.arg.v, StoredNow.options.items)
          /\ last.arg.t = "object" =>
                /\ InEnumerationOrder(Ids(StoredNow.options.items), last.arg.v)
                /\ \A opt \in Range(StoredNow.options.items) :
                      opt.name = ValueOf(last.arg.v, opt.id)

\* A second call, with the mapping {4294967295: 'blue', 2: 'red'}: 2^32 - 1
\* is not an array index and keeps its place among the string keys.
C8_Witness ==
    /\ ~headers
    /\ ncalls = 2
    /\ last.op = "options"
    /\ last.arg.t = "object"
    /\ last.arg.v = << <<"4294967295", "blue">>, <<"2", "red">> >>
    /\ StoredNow.options.items =
          <<[id |-> "2", name |-> "red"], [id |-> "4294967295", name |-> "blue"]>>

\* The groups a mapping whose values are arrays and mappings gives, when
\* the keys of a mapping m are taken in the order Ordered(ids, m).
GroupsAsGiven(m, groups, Ordered(_, _)) ==
    /\ Ordered([i \in 1..Len(groups) |-> groups[i].name], m)
    /\ \A gr \in Range(groups) :
          LET value == ValueOf(m, gr.name)
          IN IF value.t = "array"
             THEN gr.options =
                     [i \in 1..Len(value.v) |->
                         [id |-> value.v[i], name |-> value.v[i]]]
             ELSE /\ Ordered(Ids(gr.options), value.v)
                  /\ \A opt \in Range(gr.options) :
                        opt.name = ValueOf(value.v, opt.id)

\* toJson follows a groupedOptions call on a mapping of arrays and mappings,
\* localization disabled.
GroupedMappingSerialized ==
    /\ ~headers
    /\ last.op = "groupedOptions"
    /\ ~last.threw
    /\ last.arg.t = "object"
    /\ \A e \in Range(last.arg.v) : e[2].t \in {"array", "object"}
    /\ IsCall("toJson")

\* C9 as claimed: the document has one group per key in insertion order,
\* name = key, and the options of each group in input order.
C9_InsertionOrder ==
    [][GroupedMappingSerialized =>
          /\ doc'.groupedOptions.set
          /\ GroupsAsGiven(last.arg.v, doc'.groupedOptions.items,
                           InInsertionOrder)]_vars

\* C9 amended: the same, the groups and the options of a mapping value
\* being in the order for...in gives the keys: array-index keys first,
\* ascending, then the other keys in insertion order.
C9_EnumerationOrder ==
    [][GroupedMappingSerialized =>
          /\ doc'.groupedOptions.set
          /\ GroupsAsGiven(last.arg.v, doc'.groupedOptions.items,
                           InEnumerationOrder)]_vars

\* The document of {Sizes: {b: .., 4294967295: .., 2: .., a: .., 1: ..},
\* Colors: ['red', 'blue']}.
C9_Witness ==
    /\ ~headers
    /\ last.op = "toJson"
    /\ doc.groupedOptions.set
    /\ doc.groupedOptions.items =
          <<[name |-> "Sizes",
             options |-> <<[id |-> "1", name |-> "blue"], [id |-> "2", name |-> "red"],
                           [id |-> "b", name |-> "blue"],
                           [id |-> "4294967295", name |-> "red"],
                           [id |-> "a", name |-> "red"]>>],
            [name |-> "Colors",
             options |-> <<[id |-> "red", name |-> "red"],
                           [id |-> "blue", name |-> "blue"]>>]>>

\* C10: with localization enabled no name of a document toJson returned is
\* a raw localization key.
C10_NoRawKey ==
    (headers /\ doc.returned) => \A name \in DocNames(doc) : ~IsKey(name)

====
